---- MODULE Spec2Model ----
(***************************************************************************)
(* Identity reconciliation and session issuance of the NestJS todo         *)
(* backend: AuthService (register, login, validateOrCreateGoogleUser,      *)
(* validateOrCreateAmazonUser, generateToken) over UserRepository and the   *)
(* users table of prisma/schema.prisma; the todo endpoints behind          *)
(* JwtAuthGuard (TodosController, TodosService, TodoRepository) over the   *)
(* todos table; and the OAuth callbacks of AuthController.                 *)
(*                                                                         *)
(* JavaScript strings that the code transforms (names, pictures, stored    *)
(* passwords) are sequences of one-character strings, so "" is <<>>.       *)
(* null and undefined are the one-element sequences Null and Undefined,    *)
(* which are not sequences of characters.  E-mail addresses and plaintext  *)
(* passwords are only compared, never transformed: they are TLA+ strings.  *)
(***************************************************************************)
EXTENDS Integers, Sequences, FiniteSets, TLC

VARIABLES users, nextId, last, nreq, inflight,
          todos, nextTodoId, now, tlast, tflight, cblast, issued

vars ==
    <<users, nextId, last, nreq, inflight,
      todos, nextTodoId, now, tlast, tflight, cblast, issued>>

\* The state of the authentication endpoints, and the rest.
authVars == <<users, nextId, last, nreq, inflight>>

restVars == <<todos, nextTodoId, now, tlast, tflight, cblast, issued>>

(***************************************************************************)
(* Bounds of the model.                                                    *)
(***************************************************************************)
MaxRequests == 3

NumProcs == 2

MaxRaceRequests == 2

MaxTodoRequests == 2

MaxTodos == 3

MaxTime == 1

MaxTodoRaceRequests == 2

\* Requests sent to the guarded routes in the guard specification.
MaxGuardRequests == 2

MaxDataRequests == 2

MaxSessionRequests == 3

MaxCallbacks == 2

(***************************************************************************)
(* Request inputs.                                                         *)
(***************************************************************************)
Null == <<"null">>

Undefined == <<"undefined">>

Emails == {"a@x.com", "b@x.com"}

Passwords == {"pw123456", "hunter22"}

RegisterNames == {<<"A", "n">>, <<"B", "o">>}

GivenNames == {<<>>, <<"G">>}

FamilyNames == {<<"H">>}

GooglePictures == {<<>>, <<"p">>}

AmazonNames == {<<>>, <<"Z">>}

Procs == 1..NumProcs

(***************************************************************************)
(* JavaScript value helpers.                                               *)
(***************************************************************************)
\* Operand of `x || y` / `!x` for a string-or-null value: "", null and
\* undefined are falsy.
Falsy(x) == x = <<>> \/ x = Null \/ x = Undefined

\* `x || null`
OrNull(x) == IF Falsy(x) THEN Null ELSE x

\* The code points String.prototype.trim strips: WhiteSpace (tab, VT, FF,
\* space, NBSP, ZWNBSP, the space separators) and LineTerminator (LF, CR, LS,
\* PS).  A code point without an escape is written "U+xxxx".
WhiteSpace ==
    {" ", "\t", "\n", "\f", "\r", "U+000b", "U+00a0", "U+feff", "U+1680",
     "U+2000", "U+2001", "U+2002", "U+2003", "U+2004", "U+2005", "U+2006",
     "U+2007", "U+2008", "U+2009", "U+200a", "U+2028", "U+2029", "U+202f",
     "U+205f", "U+3000"}

RECURSIVE trimStart(_)
trimStart(s) ==
    IF s # <<>> /\ Head(s) \in WhiteSpace THEN trimStart(Tail(s)) ELSE s

RECURSIVE trimEnd(_)
trimEnd(s) ==
    IF s # <<>> /\ s[Len(s)] \in WhiteSpace
    THEN trimEnd(SubSeq(s, 1, Len(s) - 1))
    ELSE s

\* String.prototype.trim
trim(s) == trimEnd(trimStart(s))

\* `${firstName} ${lastName}`.trim()
fullName(firstName, lastName) == trim(firstName \o <<" ">> \o lastName)

(***************************************************************************)
(* bcrypt: the stored hash of a plaintext, and its verification.  A stored *)
(* password that is not a bcrypt hash (the empty string) verifies nothing. *)
(***************************************************************************)
bcryptHash(password) == <<"$2b$10$", password>>

bcryptCompare(password, hash) ==
    /\ Len(hash) = 2
    /\ hash[1] = "$2b$10$"
    /\ hash[2] = password

(***************************************************************************)
(* The users table.  A row is a record; NoUser is the null result of a     *)
(* lookup.                                                                 *)
(***************************************************************************)
NoUser ==
    [id |-> 0, email |-> "", password |-> <<>>, name |-> Null,
     authProvider |-> "", profilePicture |-> Null]

NoToken == [sub |-> 0, email |-> "", name |-> Null, picture |-> Null]

NoBody ==
    [id |-> 0, email |-> "", name |-> Null, token |-> NoToken, picture |-> Null]

\* Variant of findByEmail: the lookup sees only rows of local accounts.
findByEmail_LocalOnly(us, email) ==
    IF \E u \in us : u.email = email /\ u.authProvider = "local"
    THEN CHOOSE u \in us : u.email = email /\ u.authProvider = "local"
    ELSE NoUser

\* UserRepository.findByEmail: prisma.user.findUnique({ where: { email } })
findByEmail(us, email) ==
    IF \E u \in us : u.email = email
    THEN CHOOSE u \in us : u.email = email
    ELSE NoUser

\* Variant of EmailIsFree: the column carries no unique constraint.
EmailIsFree_NoConstraint(us, email) == TRUE

\* `email String @unique`: an insert is accepted only if no row has the email.
EmailIsFree(us, email) == \A u \in us : u.email # email

\* Variant of createUser: the password is stored without hashing.
createUser_PlainPassword(id, registerDto) ==
    [id |-> id, email |-> registerDto.email,
     password |-> <<registerDto.password>>,
     name |-> registerDto.name,
     authProvider |-> "local", profilePicture |-> Null]

\* The row UserRepository.createUser inserts for a RegisterDto.
createUser(id, registerDto) ==
    [id |-> id, email |-> registerDto.email,
     password |-> bcryptHash(registerDto.password),
     name |-> registerDto.name,
     authProvider |-> "local", profilePicture |-> Null]

\* Variant of createGoogleUser: authProvider is left to the column default.
createGoogleUser_DefaultProvider(id, email, name, picture) ==
    [id |-> id, email |-> email, password |-> <<>>, name |-> name,
     authProvider |-> "local", profilePicture |-> picture]

\* The row UserRepository.createGoogleUser inserts.
createGoogleUser(id, email, name, picture) ==
    [id |-> id, email |-> email, password |-> <<>>, name |-> name,
     authProvider |-> "google", profilePicture |-> picture]

\* The row createAmazonUser inserts (declared in UserRepositoryInterface; the
\* implementation is the provider-parameterised twin of createGoogleUser).
createAmazonUser(id, email, name, picture) ==
    [id |-> id, email |-> email, password |-> <<>>, name |-> name,
     authProvider |-> "amazon", profilePicture |-> picture]

\* Variant of updateUser: linking a provider also clears the local password.
updateUser_ClearsPassword(u, authProvider, profilePicture) ==
    [u EXCEPT !.authProvider = authProvider, !.profilePicture = profilePicture,
              !.password = <<>>]

\* Variant of updateUser: the update also rewrites the e-mail column.
updateUser_RewritesEmail(u, authProvider, profilePicture) ==
    [u EXCEPT !.authProvider = authProvider, !.profilePicture = profilePicture,
              !.email = ""]

\* The row after UserRepository.updateUser(u.id, { authProvider, profilePicture }).
updateUser(u, authProvider, profilePicture) ==
    [u EXCEPT !.authProvider = authProvider, !.profilePicture = profilePicture]

\* Variant of applyUpdate: the row is deleted instead of updated.
applyUpdate_DropsRow(us, id, authProvider, profilePicture) ==
    {u \in us : u.id # id}

\* The table after prisma.user.update({ where: { id }, data }).
applyUpdate(us, id, authProvider, profilePicture) ==
    {IF u.id = id THEN updateUser(u, authProvider, profilePicture) ELSE u : u \in us}

(***************************************************************************)
(* Token issuance and response shapes.                                     *)
(***************************************************************************)
\* AuthService.generateToken: the signed payload.
generateToken(userId, email, name, picture) ==
    [sub |-> userId, email |-> email, name |-> OrNull(name),
     picture |-> OrNull(picture)]

\* The object returned by register and login.
localResult(user) ==
    [id |-> user.id, email |-> user.email, name |-> user.name,
     token |-> generateToken(user.id, user.email, user.name, user.profilePicture),
     picture |-> user.profilePicture]

\* The object returned by validateOrCreateGoogleUser / validateOrCreateAmazonUser.
federatedResult(user) ==
    [id |-> user.id, email |-> user.email, name |-> OrNull(user.name),
     token |-> generateToken(user.id, user.email, user.name, user.profilePicture),
     picture |-> OrNull(user.profilePicture)]

GoogleAccountMessage ==
    "This account uses Google authentication. Please sign in with Google."

\* The record of the most recently completed request: its inputs, the row its
\* lookup found, and its outcome.
Outcome(op, email, password, name, picture, found, status, message, body) ==
    [op |-> op, email |-> email, password |-> password, name |-> name,
     picture |-> picture, found |-> found, status |-> status,
     message |-> message, body |-> body]

NoOutcome == Outcome("none", "", "", Null, Null, NoUser, "none", "", NoBody)

Idle ==
    [pc |-> "idle", op |-> "none", email |-> "", password |-> "", name |-> Null,
     picture |-> Null, found |-> NoUser]

(***************************************************************************)
(* Bearer tokens, the todos table and the todo DTOs.  A DTO is a record    *)
(* whose domain is the set of properties the request body supplies.  A     *)
(* due-date string is a wall-clock time with a zone offset; a stored       *)
(* DateTime? is the empty set (null) or the singleton of an instant.       *)
(***************************************************************************)
\* The bearer tokens a request may present: the claims validation reads, and
\* whether the signature was made with JWT_SECRET.  One token per subject
\* outlives the run; one expires while it lasts; one is forged.
Tokens ==
    {[sub |-> s, exp |-> MaxTime + 1, signed |-> TRUE] : s \in 1..3}
      \cup {[sub |-> 1, exp |-> 1, signed |-> TRUE],
            [sub |-> 1, exp |-> MaxTime + 1, signed |-> FALSE]}

NoCredentials == [sub |-> 0, exp |-> 0, signed |-> FALSE]

CreateTodoDtos ==
    {[title |-> <<"a">>],
     [title |-> <<"b">>, description |-> <<"d">>,
      dueDate |-> [wall |-> 5, offset |-> 0]]}

UpdateTodoDtos ==
    {[title |-> <<"c">>, completed |-> TRUE],
     [completed |-> TRUE, userId |-> 2],
     [description |-> <<"e">>, dueDate |-> [wall |-> 7, offset |-> 1]]}

\* The ids a request names: those handed out so far and the next one, which
\* no row has.
TodoIds == 1..nextTodoId

NoDate == {}

Has(dto, key) == key \in DOMAIN dto

\* JSON null sent as the value of dueDate (validation skips an @IsOptional
\* property that is null).
JsonNull == [null |-> TRUE]

\* Variant of parseDate: the zone offset of the string is dropped.
parseDate_DropsOffset(d) == d.wall

\* new Date(dueDate): the instant a date string denotes.
parseDate(d) == d.wall - d.offset

\* `dto.dueDate ? ... : ...`: the property is there and is a date string.
dueDateGiven(dto) == Has(dto, "dueDate") /\ dto.dueDate # JsonNull

NoTodo ==
    [id |-> 0, title |-> <<>>, description |-> Null, completed |-> FALSE,
     dueDate |-> NoDate, createdAt |-> 0, userId |-> 0]

\* AuthUser, and the absence of one.
NoAuthUser == [id |-> 0, email |-> "", name |-> Undefined]

\* The record of the most recently completed todo request: its inputs, the
\* user the guard attached to it, and its response.
TodoOutcome(op, token, id, dto, caller, status, message, body) ==
    [op |-> op, token |-> token, id |-> id, dto |-> dto, caller |-> caller,
     status |-> status, message |-> message, body |-> body]

NoTodoOutcome ==
    TodoOutcome("none", NoCredentials, 0, << >>, 0, "none", <<>>, NoTodo)

TodoIdle == [pc |-> "idle", op |-> "none", id |-> 0, caller |-> 0,
             dto |-> << >>, token |-> NoCredentials]

\* The record of the most recently completed OAuth callback request.
NoCallback ==
    [request |-> 0, provider |-> "none", email |-> "", reconciled |-> 0,
     status |-> 0, location |-> "", token |-> NoToken]

InitRest ==
    /\ todos = {}
    /\ nextTodoId = 1
    /\ now = 0
    /\ tlast = NoTodoOutcome
    /\ tflight = [p \in Procs |-> TodoIdle]
    /\ cblast = NoCallback
    /\ issued = {}

(***************************************************************************)
(* Initial state: empty table, autoincrement at 1, no request handled.     *)
(***************************************************************************)
Init ==
    /\ users = {}
    /\ nextId = 1
    /\ last = NoOutcome
    /\ nreq = 0
    /\ inflight = [p \in Procs |-> Idle]
    /\ InitRest

(***************************************************************************)
(* AuthService handlers.  Each handler is a chain of awaits, and the        *)
(* requests of different processes interleave between the lookup           *)
(* (findByEmail) and the write (create / update) of a handler, and        *)
(* between the lookup and the bcrypt.compare of login.                     *)
(***************************************************************************)
\* A new request is taken by the first free handler slot (the slots are
\* interchangeable).
FreeSlot(p) ==
    /\ inflight[p].pc = "idle"
    /\ \A q \in Procs : q < p => inflight[q].pc # "idle"

Pending(pc, op, email, password, name, picture, found) ==
    [pc |-> pc, op |-> op, email |-> email, password |-> password,
     name |-> name, picture |-> picture, found |-> found]

\* AuthService.register up to its `await createUser`.
register(p, email, name, password) ==
    LET existingUser == findByEmail(users, email)
    IN  /\ FreeSlot(p)
        /\ nreq' = nreq + 1
        /\ IF existingUser # NoUser
           THEN /\ last' = Outcome("register", email, password, name, Null,
                                   existingUser, "Conflict",
                                   "Email already exists", NoBody)
                /\ UNCHANGED inflight
           ELSE /\ inflight' = [inflight EXCEPT ![p] =
                                   Pending("create", "register", email, password,
                                           name, Null, existingUser)]
                /\ UNCHANGED last
        /\ UNCHANGED <<users, nextId>>

\* Variant of loginOutcome: an account without a stored password is let in.
loginOutcome_SkipsEmptyHash(email, password, user) ==
    IF user = NoUser
    THEN Outcome("login", email, password, Null, Null, user,
                 "Unauthorized", "Invalid credentials", NoBody)
    ELSE IF user.authProvider = "google"
    THEN Outcome("login", email, password, Null, Null, user,
                 "Unauthorized", GoogleAccountMessage, NoBody)
    ELSE IF user.password # <<>> /\ ~bcryptCompare(password, user.password)
    THEN Outcome("login", email, password, Null, Null, user,
                 "Unauthorized", "Invalid credentials", NoBody)
    ELSE Outcome("login", email, password, Null, Null, user,
                 "ok", "", localResult(user))

\* Variant of loginOutcome: the provider is checked after the password.
loginOutcome_PasswordFirst(email, password, user) ==
    IF user = NoUser
    THEN Outcome("login", email, password, Null, Null, user,
                 "Unauthorized", "Invalid credentials", NoBody)
    ELSE IF ~bcryptCompare(password, user.password)
    THEN Outcome("login", email, password, Null, Null, user,
                 "Unauthorized", "Invalid credentials", NoBody)
    ELSE IF user.authProvider = "google"
    THEN Outcome("login", email, password, Null, Null, user,
                 "Unauthorized", "Invalid credentials", NoBody)
    ELSE Outcome("login", email, password, Null, Null, user,
                 "ok", "", localResult(user))

\* The outcome of AuthService.login for the row its lookup returned.
loginOutcome(email, password, user) ==
    IF user = NoUser
    THEN Outcome("login", email, password, Null, Null, user,
                 "Unauthorized", "Invalid credentials", NoBody)
    ELSE IF user.authProvider = "google"
    THEN Outcome("login", email, password, Null, Null, user,
                 "Unauthorized", GoogleAccountMessage, NoBody)
    ELSE IF ~bcryptCompare(password, user.password)
    THEN Outcome("login", email, password, Null, Null, user,
                 "Unauthorized", "Invalid credentials", NoBody)
    ELSE Outcome("login", email, password, Null, Null, user,
                 "ok", "", localResult(user))

\* AuthService.login up to its `await bcrypt.compare`: the lookup, and the
\* rejections that precede the comparison.
login(p, email, password) ==
    LET user == findByEmail(users, email)
    IN  /\ FreeSlot(p)
        /\ nreq' = nreq + 1
        /\ IF user = NoUser \/ user.authProvider = "google"
           THEN /\ last' = loginOutcome(email, password, user)
                /\ UNCHANGED inflight
           ELSE /\ inflight' = [inflight EXCEPT ![p] =
                                   Pending("compare", "login", email, password,
                                           Null, Null, user)]
                /\ UNCHANGED last
        /\ UNCHANGED <<users, nextId>>

\* Variant of finishLogin: a successful password login tags the row as local.
finishLogin_LinksLocal(p) ==
    LET r == inflight[p]
        outcome == loginOutcome(r.email, r.password, r.found)
    IN  /\ r.pc = "compare"
        /\ last' = outcome
        /\ users' = IF outcome.status = "ok"
                    THEN applyUpdate(users, r.found.id, "local",
                                     r.found.profilePicture)
                    ELSE users
        /\ inflight' = [inflight EXCEPT ![p] = Idle]
        /\ UNCHANGED <<nextId, nreq>>

\* bcrypt.compare of a pending login against the hash of the row its lookup
\* returned, and the rest of the handler.
finishLogin(p) ==
    LET r == inflight[p]
    IN  /\ r.pc = "compare"
        /\ last' = loginOutcome(r.email, r.password, r.found)
        /\ inflight' = [inflight EXCEPT ![p] = Idle]
        /\ UNCHANGED <<users, nextId, nreq>>

\* Variant of providerDiffers: every federated login of a known e-mail writes.
providerDiffers_Always(user, op) == TRUE

\* `else if (user.authProvider !== 'google')` / `!== 'amazon'`
providerDiffers(user, op) == user.authProvider # op

\* validateOrCreateGoogleUser / validateOrCreateAmazonUser up to the await of
\* their create or update call; the same-provider branch completes at once.
federated(p, op, email, name, picture) ==
    LET user == findByEmail(users, email)
    IN  /\ FreeSlot(p)
        /\ nreq' = nreq + 1
        /\ IF user = NoUser
           THEN /\ inflight' = [inflight EXCEPT ![p] =
                                   Pending("create", op, email, "", name,
                                           picture, user)]
                /\ UNCHANGED last
           ELSE IF providerDiffers(user, op)
           THEN /\ inflight' = [inflight EXCEPT ![p] =
                                   Pending("update", op, email, "", name,
                                           picture, user)]
                /\ UNCHANGED last
           ELSE /\ last' = Outcome(op, email, "", name, picture, user,
                                   "ok", "", federatedResult(user))
                /\ UNCHANGED inflight
        /\ UNCHANGED <<users, nextId>>

\* AuthService.validateOrCreateGoogleUser
validateOrCreateGoogleUser(p, email, firstName, lastName, picture) ==
    federated(p, "google", email, fullName(firstName, lastName), picture)

\* AuthService.validateOrCreateAmazonUser
validateOrCreateAmazonUser(p, email, name, picture) ==
    federated(p, "amazon", email, name, picture)

\* The row a pending create inserts.
pendingRow(r) ==
    IF r.op = "register"
    THEN createUser(nextId, [email |-> r.email, name |-> r.name,
                             password |-> r.password])
    ELSE IF r.op = "google"
    THEN createGoogleUser(nextId, r.email, r.name, OrNull(r.picture))
    ELSE createAmazonUser(nextId, r.email, r.name, OrNull(r.picture))

\* prisma.user.create of a pending request, and the rest of its handler.
finishCreate(p) ==
    LET r == inflight[p]
        user == pendingRow(r)
    IN  /\ r.pc = "create"
        /\ IF EmailIsFree(users, r.email)
           THEN /\ users' = users \cup {user}
                /\ nextId' = nextId + 1
                /\ last' = Outcome(r.op, r.email, r.password, r.name, r.picture,
                                   r.found, "ok", "",
                                   IF r.op = "register" THEN localResult(user)
                                   ELSE federatedResult(user))
           ELSE /\ last' = Outcome(r.op, r.email, r.password, r.name, r.picture,
                                   r.found, "UniqueConstraint",
                                   "Unique constraint failed", NoBody)
                /\ UNCHANGED <<users, nextId>>
        /\ inflight' = [inflight EXCEPT ![p] = Idle]
        /\ UNCHANGED nreq

\* Variant of finishUpdate: after linking a provider, the response is built
\* from the row as it was looked up, not from the row updateUser returned.
finishUpdate_StaleRow(p) ==
    LET r == inflight[p]
        row == CHOOSE u \in users : u.id = r.found.id
    IN  /\ r.pc = "update"
        /\ users' = applyUpdate(users, r.found.id, r.op, OrNull(r.picture))
        /\ last' = Outcome(r.op, r.email, r.password, r.name, r.picture,
                           r.found, "ok", "",
                           federatedResult(r.found))
        /\ inflight' = [inflight EXCEPT ![p] = Idle]
        /\ UNCHANGED <<nextId, nreq>>

\* prisma.user.update of a pending request, and the rest of its handler.
finishUpdate(p) ==
    LET r == inflight[p]
        row == CHOOSE u \in users : u.id = r.found.id
    IN  /\ r.pc = "update"
        /\ users' = applyUpdate(users, r.found.id, r.op, OrNull(r.picture))
        /\ last' = Outcome(r.op, r.email, r.password, r.name, r.picture,
                           r.found, "ok", "",
                           federatedResult(updateUser(row, r.op,
                                                      OrNull(r.picture))))
        /\ inflight' = [inflight EXCEPT ![p] = Idle]
        /\ UNCHANGED <<nextId, nreq>>

(***************************************************************************)
(* The authentication endpoints with the profiles of two providers.        *)
(***************************************************************************)
\* Google profiles: name.givenName, name.familyName, photos[0].value.
GoogleProfiles ==
    {[firstName |-> <<>>, lastName |-> <<"H">>, picture |-> <<>>],
     [firstName |-> <<"\t", "G">>, lastName |-> <<"H">>, picture |-> <<"p">>]}

\* The name and password of a RegisterDto.
LocalAccounts ==
    {[name |-> <<"A", "n">>, password |-> "pw123456"],
     [name |-> <<"B", "o">>, password |-> "hunter22"]}

Register ==
    /\ nreq < MaxRequests
    /\ UNCHANGED restVars
    /\ \E p \in Procs, email \in Emails, account \in LocalAccounts :
           register(p, email, account.name, account.password)

Login ==
    /\ nreq < MaxRequests
    /\ UNCHANGED restVars
    /\ \E p \in Procs, email \in Emails, password \in Passwords :
           login(p, email, password)

GoogleLogin ==
    /\ nreq < MaxRequests
    /\ UNCHANGED restVars
    /\ \E p \in Procs, email \in Emails, profile \in GoogleProfiles :
           validateOrCreateGoogleUser(p, email, profile.firstName,
                                      profile.lastName, profile.picture)

\* AmazonStrategy.validate passes { email, name, userId, accessToken }: the
\* service never receives a picture from it.
AmazonLogin ==
    /\ nreq < MaxRequests
    /\ UNCHANGED restVars
    /\ \E p \in Procs, email \in Emails, name \in AmazonNames :
           validateOrCreateAmazonUser(p, email, name, Undefined)

Compare == UNCHANGED restVars /\ \E p \in Procs : finishLogin(p)

Create == UNCHANGED restVars /\ \E p \in Procs : finishCreate(p)

Update == UNCHANGED restVars /\ \E p \in Procs : finishUpdate(p)

Next ==
    Register \/ Login \/ GoogleLogin \/ AmazonLogin \/ Compare \/ Create \/ Update

Spec == Init /\ [][Next]_vars

(***************************************************************************)
(* The same endpoints with every combination of the request inputs.        *)
(***************************************************************************)
RaceRegister ==
    /\ nreq < MaxRaceRequests
    /\ UNCHANGED restVars
    /\ \E p \in Procs, email \in Emails, name \in RegisterNames,
          password \in Passwords :
           register(p, email, name, password)

RaceLogin ==
    /\ nreq < MaxRaceRequests
    /\ UNCHANGED restVars
    /\ \E p \in Procs, email \in Emails, password \in Passwords :
           login(p, email, password)

RaceGoogle ==
    /\ nreq < MaxRaceRequests
    /\ UNCHANGED restVars
    /\ \E p \in Procs, email \in Emails, firstName \in GivenNames,
          lastName \in FamilyNames, picture \in GooglePictures :
           validateOrCreateGoogleUser(p, email, firstName, lastName, picture)

RaceAmazon ==
    /\ nreq < MaxRaceRequests
    /\ UNCHANGED restVars
    /\ \E p \in Procs, email \in Emails, name \in AmazonNames :
           validateOrCreateAmazonUser(p, email, name, Undefined)

NextRace ==
    \/ RaceRegister
    \/ RaceLogin
    \/ RaceGoogle
    \/ RaceAmazon
    \/ Compare
    \/ Create
    \/ Update

SpecRace == Init /\ [][NextRace]_vars

(***************************************************************************)
(* JwtAuthGuard: verification of the bearer token, then JwtStrategy        *)
(* .validate.                                                              *)
(***************************************************************************)
\* Variant of verifyToken: the strategy is configured to ignore expiration.
verifyToken_IgnoreExpiration(token, t) == token.signed

\* passport-jwt with secretOrKey and ignoreExpiration: false: the signature
\* verifies and the expiry lies after the current time.
verifyToken(token, t) == token.signed /\ t < token.exp

\* Variant of validate: the payload is trusted without looking the user up.
validate_TrustsPayload(us, payload) ==
    [id |-> payload.sub, email |-> "", name |-> Undefined]

\* JwtStrategy.validate
validate(us, payload) ==
    IF \E u \in us : u.id = payload.sub
    THEN LET user == CHOOSE u \in us : u.id = payload.sub
         IN  [id |-> user.id, email |-> user.email,
              name |-> IF Falsy(user.name) THEN Undefined ELSE user.name]
    ELSE NoAuthUser

\* JwtAuthGuard.canActivate: the user attached to the request, or the message
\* of the UnauthorizedException.
jwtAuthGuard(us, token, t) ==
    IF ~verifyToken(token, t)
    THEN [user |-> NoAuthUser, message |-> <<"Unauthorized">>]
    ELSE IF validate(us, token) = NoAuthUser
    THEN [user |-> NoAuthUser, message |-> <<"Invalid token">>]
    ELSE [user |-> validate(us, token), message |-> <<>>]

(***************************************************************************)
(* The global ValidationPipe (whitelist, forbidNonWhitelisted) on the      *)
(* request body.                                                           *)
(***************************************************************************)
CreateTodoProperties == {"title", "description", "dueDate"}

UpdateTodoProperties == {"title", "description", "completed", "dueDate"}

\* Variant of validationPipe: properties without a decorator are let through.
validationPipe_NoWhitelist(dto, properties) == TRUE

\* A body with a property the DTO class does not declare is refused.
validationPipe(dto, properties) == DOMAIN dto \subseteq properties

\* CreateTodoDto: title is a non-empty string.
validCreateTodoDto(dto) ==
    /\ validationPipe(dto, CreateTodoProperties)
    /\ Has(dto, "title") /\ dto.title # <<>>

\* UpdateTodoDto: every property is optional.
validUpdateTodoDto(dto) == validationPipe(dto, UpdateTodoProperties)

(***************************************************************************)
(* TodoRepository.                                                         *)
(***************************************************************************)
\* The row TodoRepository.create inserts.
repoCreate(id, userId, dto, t) ==
    [id |-> id, title |-> dto.title,
     description |-> IF Has(dto, "description") THEN dto.description ELSE Null,
     completed |-> FALSE,
     dueDate |-> IF dueDateGiven(dto) THEN {parseDate(dto.dueDate)} ELSE NoDate,
     createdAt |-> t, userId |-> userId]

\* ORDER BY created_at DESC: the orders in which the rows may be returned
\* (rows with equal creation time in any order).
RECURSIVE orderByCreatedAtDesc(_)
orderByCreatedAtDesc(rows) ==
    IF rows = {} THEN {<<>>}
    ELSE UNION {{<<t>> \o rest : rest \in orderByCreatedAtDesc(rows \ {t})} :
                  t \in {r \in rows : \A o \in rows : r.createdAt >= o.createdAt}}

\* Variant of repoFindAll: the query is not scoped by owner.
repoFindAll_Unscoped(ts, userId) == orderByCreatedAtDesc(ts)

\* TodoRepository.findAll
repoFindAll(ts, userId) ==
    orderByCreatedAtDesc({t \in ts : t.userId = userId})

\* Variant of repoFindOne: the row is looked up by id alone.
repoFindOne_AnyOwner(ts, id, userId) ==
    IF \E t \in ts : t.id = id
    THEN CHOOSE t \in ts : t.id = id
    ELSE NoTodo

\* TodoRepository.findOne
repoFindOne(ts, id, userId) ==
    IF \E t \in ts : t.id = id /\ t.userId = userId
    THEN CHOOSE t \in ts : t.id = id /\ t.userId = userId
    ELSE NoTodo

\* Variant of repoExists: the row is looked up by id alone.
repoExists_AnyOwner(ts, id, userId) == \E t \in ts : t.id = id

\* TodoRepository.exists
repoExists(ts, id, userId) == \E t \in ts : t.id = id /\ t.userId = userId

\* Variant of repoUpdate: the write replaces the whole row, resetting the
\* optional columns the DTO does not supply.
repoUpdate_ResetsUnsupplied(t, dto) ==
    [t EXCEPT
       !.title = IF Has(dto, "title") THEN dto.title ELSE @,
       !.description = IF Has(dto, "description") THEN dto.description ELSE Null,
       !.completed = IF Has(dto, "completed") THEN dto.completed ELSE FALSE,
       !.dueDate = IF dueDateGiven(dto) THEN {parseDate(dto.dueDate)} ELSE NoDate,
       !.userId = IF Has(dto, "userId") THEN dto.userId ELSE @]

\* The row after TodoRepository.update: every property of the DTO object is
\* spread into the write, dueDate only when it is a date string (a null
\* dueDate becomes undefined, which the write skips).
repoUpdate(t, dto) ==
    [t EXCEPT
       !.title = IF Has(dto, "title") THEN dto.title ELSE @,
       !.description = IF Has(dto, "description") THEN dto.description ELSE @,
       !.completed = IF Has(dto, "completed") THEN dto.completed ELSE @,
       !.dueDate = IF dueDateGiven(dto) THEN {parseDate(dto.dueDate)} ELSE @,
       !.userId = IF Has(dto, "userId") THEN dto.userId ELSE @]

\* prisma.todo.update / delete address the row by id alone.
rowById(ts, id) ==
    IF \E t \in ts : t.id = id THEN CHOOSE t \in ts : t.id = id ELSE NoTodo

\* `Todo with ID ${id} not found`
notFoundMessage(id) == <<"Todo with ID ", id, " not found">>

(***************************************************************************)
(* Todo requests: JwtAuthGuard, TodosController, TodosService,             *)
(* TodoRepository.  A request awaits the guard's user lookup, then the     *)
(* handler's store call; update and remove await the ownership check and   *)
(* then the write.  Other requests run between any two of these.           *)
(***************************************************************************)
\* A request suspended at an await: before its handler (pc "handler"), or
\* before the write of its update or remove (pc "update" / "remove").
TodoPending(pc, op, token, id, dto, caller) ==
    [pc |-> pc, op |-> op, id |-> id, caller |-> caller, dto |-> dto,
     token |-> token]

\* The guard refused the request: 401, and no handler runs.
unauthorized(op, token, id, dto, message) ==
    tlast' = TodoOutcome(op, token, id, dto, 0, "Unauthorized", message, NoTodo)

\* The ValidationPipe refused the body: 400, and no handler runs.
badRequest(f) ==
    tlast' = TodoOutcome(f.op, f.token, f.id, f.dto, f.caller, "BadRequest",
                         <<"Bad Request">>, NoTodo)

\* @UseGuards(JwtAuthGuard) on a request of kind op: the token is verified
\* and the user looked up; the handler follows in a later step.  Process p
\* is the lowest-numbered one not serving a todo request.
canActivate(p, op, token, id, dto) ==
    LET g == jwtAuthGuard(users, token, now)
    IN  /\ tflight[p] = TodoIdle
        /\ \A q \in Procs : q < p => tflight[q] # TodoIdle
        /\ nreq' = nreq + 1
        /\ IF g.user = NoAuthUser
           THEN unauthorized(op, token, id, dto, g.message) /\ UNCHANGED tflight
           ELSE /\ tflight' = [tflight EXCEPT
                                 ![p] = TodoPending("handler", op, token, id,
                                                    dto, g.user.id)]
                /\ UNCHANGED tlast
        /\ UNCHANGED <<users, nextId, last, inflight, todos, nextTodoId, now,
                       cblast, issued>>

\* POST /todos: validation of the body, then TodosService.create.
create(p) ==
    LET f == tflight[p]
        row == repoCreate(nextTodoId, f.caller, f.dto, now)
    IN  /\ f.pc = "handler" /\ f.op = "create"
        /\ IF ~validCreateTodoDto(f.dto)
           THEN badRequest(f) /\ UNCHANGED <<todos, nextTodoId>>
           ELSE /\ todos' = todos \cup {row}
                /\ nextTodoId' = nextTodoId + 1
                /\ tlast' = TodoOutcome("create", f.token, 0, f.dto, f.caller,
                                        "ok", <<>>, row)
        /\ tflight' = [tflight EXCEPT ![p] = TodoIdle]
        /\ UNCHANGED <<authVars, now, cblast, issued>>

\* GET /todos: TodosService.findAll.
findAll(p) ==
    LET f == tflight[p]
    IN  /\ f.pc = "handler" /\ f.op = "findAll"
        /\ \E rows \in repoFindAll(todos, f.caller) :
              tlast' = TodoOutcome("findAll", f.token, 0, << >>, f.caller,
                                   "ok", <<>>, rows)
        /\ tflight' = [tflight EXCEPT ![p] = TodoIdle]
        /\ UNCHANGED <<authVars, todos, nextTodoId, now, cblast, issued>>

\* GET /todos/:id: TodosService.findOne.
findOne(p) ==
    LET f == tflight[p]
        todo == repoFindOne(todos, f.id, f.caller)
    IN  /\ f.pc = "handler" /\ f.op = "findOne"
        /\ tlast' = IF todo = NoTodo
                    THEN TodoOutcome("findOne", f.token, f.id, << >>, f.caller,
                                     "NotFound", notFoundMessage(f.id), NoTodo)
                    ELSE TodoOutcome("findOne", f.token, f.id, << >>, f.caller,
                                     "ok", <<>>, todo)
        /\ tflight' = [tflight EXCEPT ![p] = TodoIdle]
        /\ UNCHANGED <<authVars, todos, nextTodoId, now, cblast, issued>>

\* Validation and the awaited exists() of update or remove; the write by id
\* follows in a later step.
startMutation(p, op) ==
    LET f == tflight[p]
    IN  /\ f.pc = "handler" /\ f.op = op
        /\ IF op = "update" /\ ~validUpdateTodoDto(f.dto)
           THEN /\ badRequest(f)
                /\ tflight' = [tflight EXCEPT ![p] = TodoIdle]
           ELSE IF ~repoExists(todos, f.id, f.caller)
           THEN /\ tlast' = TodoOutcome(op, f.token, f.id, f.dto, f.caller,
                                        "NotFound", notFoundMessage(f.id),
                                        NoTodo)
                /\ tflight' = [tflight EXCEPT ![p] = TodoIdle]
           ELSE /\ tflight' = [tflight EXCEPT
                                 ![p] = TodoPending(op, op, f.token, f.id,
                                                    f.dto, f.caller)]
                /\ UNCHANGED tlast
        /\ UNCHANGED <<authVars, todos, nextTodoId, now, cblast, issued>>

\* prisma.todo.update / delete found no row with the id: the error is not
\* caught and the request ends in 500.
recordNotFound(f) ==
    /\ tlast' = TodoOutcome(f.op, f.token, f.id, f.dto, f.caller,
                            "InternalServerError", <<"Internal server error">>,
                            NoTodo)
    /\ UNCHANGED todos

\* The write of a pending update: TodoRepository.update.
finishTodoUpdate(p) ==
    LET f == tflight[p]
        old == rowById(todos, f.id)
        row == repoUpdate(old, f.dto)
    IN  /\ f.pc = "update"
        /\ IF old = NoTodo
           THEN recordNotFound(f)
           ELSE /\ todos' = (todos \ {old}) \cup {row}
                /\ tlast' = TodoOutcome("update", f.token, f.id, f.dto,
                                        f.caller, "ok", <<>>, row)
        /\ tflight' = [tflight EXCEPT ![p] = TodoIdle]
        /\ UNCHANGED <<authVars, nextTodoId, now, cblast, issued>>

\* The write of a pending remove: TodoRepository.remove.
finishTodoRemove(p) ==
    LET f == tflight[p]
        old == rowById(todos, f.id)
    IN  /\ f.pc = "remove"
        /\ IF old = NoTodo
           THEN recordNotFound(f)
           ELSE /\ todos' = todos \ {old}
                /\ tlast' = TodoOutcome("remove", f.token, f.id, << >>,
                                        f.caller, "ok", <<>>, old)
        /\ tflight' = [tflight EXCEPT ![p] = TodoIdle]
        /\ UNCHANGED <<authVars, nextTodoId, now, cblast, issued>>

\* PATCH /todos/:id up to the `await exists` of TodosService.update
update(p) == startMutation(p, "update")

\* DELETE /todos/:id up to the `await exists` of TodosService.remove
remove(p) == startMutation(p, "remove")

\* The ids the creates that passed the guard will take leave room in the
\* table for one more.
RoomToCreate ==
    nextTodoId + Cardinality({p \in Procs : tflight[p].op = "create"})
       <= MaxTodos

\* Two accounts have registered before the first todo request.
TodoUsers ==
    {createUser(1, [email |-> "a@x.com", name |-> <<"A", "n">>,
                    password |-> "pw123456"]),
     createUser(2, [email |-> "b@x.com", name |-> <<"B", "o">>,
                    password |-> "hunter22"])}

\* Each of them has created one todo.
TodoRows ==
    {repoCreate(1, 1, [title |-> <<"a">>], 0),
     repoCreate(2, 2, [title |-> <<"b">>, description |-> <<"d">>,
                       dueDate |-> [wall |-> 5, offset |-> 0]], 0)}

\* Time passes.
Tick ==
    /\ now < MaxTime
    /\ now' = now + 1
    /\ UNCHANGED <<authVars, todos, nextTodoId, tlast, tflight, cblast, issued>>

\* Tokens of the registered users, valid throughout.
UserTokens ==
    {token \in Tokens :
        /\ token.signed /\ token.exp > MaxTime
        /\ \E u \in TodoUsers : u.id = token.sub}

TodoCreate ==
    /\ nreq < MaxTodoRequests
    /\ RoomToCreate
    /\ \E p \in Procs, token \in UserTokens :
           canActivate(p, "create", token, 0, [title |-> <<"a">>])

TodoFindAll ==
    /\ nreq < MaxTodoRequests
    /\ \E p \in Procs, token \in UserTokens :
           canActivate(p, "findAll", token, 0, << >>)

TodoFindOne ==
    /\ nreq < MaxTodoRequests
    /\ \E p \in Procs, token \in UserTokens, id \in TodoIds :
           canActivate(p, "findOne", token, id, << >>)

TodoUpdate ==
    /\ nreq < MaxTodoRequests
    /\ \E p \in Procs, token \in UserTokens, id \in TodoIds,
          dto \in {d \in UpdateTodoDtos : Has(d, "completed")} :
           canActivate(p, "update", token, id, dto)

TodoRemove ==
    /\ nreq < MaxTodoRequests
    /\ \E p \in Procs, token \in UserTokens, id \in TodoIds :
           canActivate(p, "remove", token, id, << >>)

RunCreate == \E p \in Procs : create(p)

RunFindAll == \E p \in Procs : findAll(p)

RunFindOne == \E p \in Procs : findOne(p)

RunUpdate == \E p \in Procs : update(p)

RunRemove == \E p \in Procs : remove(p)

WriteUpdate == \E p \in Procs : finishTodoUpdate(p)

WriteRemove == \E p \in Procs : finishTodoRemove(p)

InitTodo ==
    /\ users = TodoUsers
    /\ nextId = Cardinality(TodoUsers) + 1
    /\ last = NoOutcome
    /\ nreq = 0
    /\ inflight = [p \in Procs |-> Idle]
    /\ todos = TodoRows
    /\ nextTodoId = Cardinality(TodoRows) + 1
    /\ now = 0
    /\ tlast = NoTodoOutcome
    /\ tflight = [p \in Procs |-> TodoIdle]
    /\ cblast = NoCallback
    /\ issued = {}

NextTodo ==
    \/ TodoCreate
    \/ TodoFindAll
    \/ TodoFindOne
    \/ TodoUpdate
    \/ TodoRemove
    \/ RunCreate
    \/ RunFindAll
    \/ RunFindOne
    \/ RunUpdate
    \/ RunRemove
    \/ WriteUpdate
    \/ WriteRemove
    \/ Tick

SpecTodo == InitTodo /\ [][NextTodo]_vars

(***************************************************************************)
(* The guard in front of every todo route, with tokens of every kind: of   *)
(* a registered user, of a subject without a user row, expiring, forged.   *)
(***************************************************************************)
GuardCreate ==
    /\ nreq < MaxGuardRequests
    /\ RoomToCreate
    /\ \E p \in Procs, token \in Tokens :
           canActivate(p, "create", token, 0, [title |-> <<"a">>])

GuardFindAll ==
    /\ nreq < MaxGuardRequests
    /\ \E p \in Procs, token \in Tokens :
           canActivate(p, "findAll", token, 0, << >>)

GuardFindOne ==
    /\ nreq < MaxGuardRequests
    /\ \E p \in Procs, token \in Tokens :
           canActivate(p, "findOne", token, 1, << >>)

GuardUpdate ==
    /\ nreq < MaxGuardRequests
    /\ \E p \in Procs, token \in Tokens :
           canActivate(p, "update", token, 1, [title |-> <<"c">>, completed |-> TRUE])

GuardRemove ==
    /\ nreq < MaxGuardRequests
    /\ \E p \in Procs, token \in Tokens :
           canActivate(p, "remove", token, 1, << >>)

NextGuard ==
    \/ GuardCreate
    \/ GuardFindAll
    \/ GuardFindOne
    \/ GuardUpdate
    \/ GuardRemove
    \/ RunCreate
    \/ RunFindAll
    \/ RunFindOne
    \/ RunUpdate
    \/ RunRemove
    \/ WriteUpdate
    \/ WriteRemove
    \/ Tick

SpecGuard == InitTodo /\ [][NextGuard]_vars

(***************************************************************************)
(* The todo requests of one signed-in user over a wider range of request   *)
(* request bodies.                                                         *)
(***************************************************************************)
\* The token of the second registered user, valid throughout.
DataTokens == {token \in UserTokens : token.sub = 2}

DataUpdateDtos ==
    {dto \in UpdateTodoDtos : validUpdateTodoDto(dto)} \cup
      {<< >>,
       [title |-> <<>>],
       [completed |-> FALSE, description |-> Null],
       [dueDate |-> JsonNull]}

DataCreate ==
    /\ nreq < MaxDataRequests
    /\ RoomToCreate
    /\ \E p \in Procs, token \in DataTokens,
          dto \in CreateTodoDtos \cup
                   {[title |-> <<>>],
                    [title |-> <<"a">>, dueDate |-> [wall |-> 7, offset |-> 1]],
                    [title |-> <<"a">>, description |-> Null, dueDate |-> JsonNull]} :
           canActivate(p, "create", token, 0, dto)

DataFindAll ==
    /\ nreq < MaxDataRequests
    /\ \E p \in Procs, token \in DataTokens :
           canActivate(p, "findAll", token, 0, << >>)

DataFindOne ==
    /\ nreq < MaxDataRequests
    /\ \E p \in Procs, token \in DataTokens, id \in TodoIds :
           canActivate(p, "findOne", token, id, << >>)

DataUpdate ==
    /\ nreq < MaxDataRequests
    /\ \E p \in Procs, token \in DataTokens, id \in TodoIds,
          dto \in DataUpdateDtos :
           canActivate(p, "update", token, id, dto)

DataRemove ==
    /\ nreq < MaxDataRequests
    /\ \E p \in Procs, token \in DataTokens, id \in TodoIds :
           canActivate(p, "remove", token, id, << >>)

NextTodoData ==
    \/ DataCreate
    \/ DataFindAll
    \/ DataFindOne
    \/ DataUpdate
    \/ DataRemove
    \/ RunCreate
    \/ RunFindAll
    \/ RunFindOne
    \/ RunUpdate
    \/ RunRemove
    \/ WriteUpdate
    \/ WriteRemove

SpecTodoData == InitTodo /\ [][NextTodoData]_vars

(***************************************************************************)
(* Concurrent todo requests.  TodosService.update and remove await the     *)
(* ownership check and then await the write by id; other requests run      *)
(* between the two.                                                        *)
(***************************************************************************)
\* The tokens presented while the clock stands still.
RaceTokens == {token \in Tokens : token.exp > MaxTime}

RaceTodoCreate ==
    /\ nreq < MaxTodoRaceRequests
    /\ RoomToCreate
    /\ \E p \in Procs, token \in RaceTokens, dto \in CreateTodoDtos :
           canActivate(p, "create", token, 0, dto)

RaceTodoUpdate ==
    /\ nreq < MaxTodoRaceRequests
    /\ \E p \in Procs, token \in RaceTokens, id \in TodoIds,
          dto \in UpdateTodoDtos :
           canActivate(p, "update", token, id, dto)

RaceTodoRemove ==
    /\ nreq < MaxTodoRaceRequests
    /\ \E p \in Procs, token \in RaceTokens, id \in TodoIds :
           canActivate(p, "remove", token, id, << >>)

NextTodoRace ==
    \/ RaceTodoCreate
    \/ RaceTodoUpdate
    \/ RaceTodoRemove
    \/ RunCreate
    \/ RunUpdate
    \/ RunRemove
    \/ WriteUpdate
    \/ WriteRemove

SpecTodoRace == InitTodo /\ [][NextTodoRace]_vars

(***************************************************************************)
(* OAuth callbacks.  AuthGuard('google') / AuthGuard('amazon') runs the     *)
(* strategy's validate, which reconciles the profile with the users table; *)
(* only when the strategy yields a user does the controller handler run,    *)
(* and it reconciles once more with req.user.  Each reconciliation awaits   *)
(* its lookup and then its write, and other requests run in between.       *)
(***************************************************************************)
\* profile.emails as passport-google-oauth20 delivers it.
GoogleEmailLists == {Undefined, <<>>} \cup {<<email>> : email \in Emails}

\* What AmazonStrategy.extractEmail finds in the profile ('' when nothing).
AmazonProfileEmails == {""} \cup Emails

LoginRedirect(provider) == "/login?auth_error=true&provider=" \o provider

CallbackRedirect == "/auth/callback?token="

\* The n-th callback response, with the provider and email of its profile
\* and the number of reconciliation calls the request made.
Callback(request, provider, email, reconciled, status, location, token) ==
    [request |-> request, provider |-> provider, email |-> email,
     reconciled |-> reconciled, status |-> status, location |-> location,
     token |-> token]

\* done(error, undefined): AuthGuard.handleRequest throws the strategy's
\* error; the handler and its catch block are not entered.
strategyFailed(provider, email, calls) ==
    cblast' = Callback(cblast.request + 1, provider, email, calls, 500, "",
                       NoToken)

\* done(null, user): user becomes req.user of the request in slot p, whose
\* handler is still to run.
toHandler(p, provider, user) ==
    inflight' = [inflight EXCEPT ![p] =
                    Pending("handler", provider, user.email, "", user.name,
                            user.picture, NoUser)]

\* The handler's catch block: a redirect to the login page.
handlerFailed(provider, email, calls) ==
    cblast' = Callback(cblast.request + 1, provider, email, calls, 302,
                       LoginRedirect(provider), NoToken)

\* The handler's response for the result of its reconciliation call.
handlerDone(provider, email, result) ==
    IF result.token = NoToken
    THEN handlerFailed(provider, email, 2)
    ELSE cblast' = Callback(cblast.request + 1, provider, email, 2, 302,
                            CallbackRedirect, result.token)

\* A strategy's validate up to the await of the create or update call of
\* validateOrCreateGoogleUser / validateOrCreateAmazonUser.  hasEmail: the
\* profile passed the strategy's email check; down: the database cannot be
\* reached, and the reconciliation call throws before writing.
strategy(p, provider, hasEmail, email, name, picture, down) ==
    LET user == findByEmail(users, email)
    IN  /\ FreeSlot(p)
        /\ nreq' = nreq + 1
        /\ IF ~hasEmail
           THEN strategyFailed(provider, email, 0) /\ UNCHANGED inflight
           ELSE IF down
           THEN strategyFailed(provider, email, 1) /\ UNCHANGED inflight
           ELSE IF user = NoUser
           THEN /\ inflight' = [inflight EXCEPT ![p] =
                                   Pending("strategyCreate", provider, email, "",
                                           name, picture, user)]
                /\ UNCHANGED cblast
           ELSE IF providerDiffers(user, provider)
           THEN /\ inflight' = [inflight EXCEPT ![p] =
                                   Pending("strategyUpdate", provider, email, "",
                                           name, picture, user)]
                /\ UNCHANGED cblast
           ELSE toHandler(p, provider, federatedResult(user)) /\ UNCHANGED cblast
        /\ UNCHANGED <<users, nextId, last, todos, nextTodoId, now, tlast,
                       tflight, issued>>

\* GoogleStrategy.validate
googleValidate(p, emails, givenName, familyName, picture, down) ==
    IF emails = Undefined \/ emails = <<>>
    THEN strategy(p, "google", FALSE, "", fullName(givenName, familyName),
                  picture, down)
    ELSE strategy(p, "google", TRUE, emails[1],
                  fullName(givenName, familyName), picture, down)

\* Variant of amazonValidate: the profile is reconciled whatever its email.
amazonValidate_NoEmailCheck(p, email, name, down) ==
    strategy(p, "amazon", TRUE, email, name, Undefined, down)

\* AmazonStrategy.validate (the profile it passes on carries no picture)
amazonValidate(p, email, name, down) ==
    strategy(p, "amazon", email # "", email, name, Undefined, down)

\* The create or update call of the strategy's reconciliation, and the rest
\* of validate.
strategyWrite(p) ==
    LET r == inflight[p]
        user == pendingRow(r)
        row == CHOOSE u \in users : u.id = r.found.id
    IN  /\ r.pc \in {"strategyCreate", "strategyUpdate"}
        /\ IF r.pc = "strategyUpdate"
           THEN /\ users' = applyUpdate(users, r.found.id, r.op, OrNull(r.picture))
                /\ toHandler(p, r.op,
                             federatedResult(updateUser(row, r.op,
                                                        OrNull(r.picture))))
                /\ UNCHANGED <<nextId, cblast>>
           ELSE IF EmailIsFree(users, r.email)
           THEN /\ users' = users \cup {user}
                /\ nextId' = nextId + 1
                /\ toHandler(p, r.op, federatedResult(user))
                /\ UNCHANGED cblast
           ELSE /\ strategyFailed(r.op, r.email, 1)
                /\ inflight' = [inflight EXCEPT ![p] = Idle]
                /\ UNCHANGED <<users, nextId>>
        /\ UNCHANGED <<last, nreq, todos, nextTodoId, now, tlast, tflight,
                       issued>>

\* AuthController.googleAuthCallback / amazonAuthCallback of a request the
\* guard let through, up to the await of the create or update call of its
\* own reconciliation of req.user (which has no firstName / lastName).
handler(p, down) ==
    LET r == inflight[p]
        user == findByEmail(users, r.email)
        name == IF r.op = "google" THEN fullName(Undefined, Undefined)
                ELSE r.name
    IN  /\ r.pc = "handler"
        /\ IF r.op = "amazon" /\ r.email = ""
           THEN \* `if (!userData.email) throw`
                /\ handlerFailed(r.op, r.email, 1)
                /\ inflight' = [inflight EXCEPT ![p] = Idle]
           ELSE IF down
           THEN /\ handlerFailed(r.op, r.email, 2)
                /\ inflight' = [inflight EXCEPT ![p] = Idle]
           ELSE IF user = NoUser
           THEN /\ inflight' = [inflight EXCEPT ![p] =
                                   Pending("handlerCreate", r.op, r.email, "",
                                           name, r.picture, user)]
                /\ UNCHANGED cblast
           ELSE IF providerDiffers(user, r.op)
           THEN /\ inflight' = [inflight EXCEPT ![p] =
                                   Pending("handlerUpdate", r.op, r.email, "",
                                           name, r.picture, user)]
                /\ UNCHANGED cblast
           ELSE /\ handlerDone(r.op, r.email, federatedResult(user))
                /\ inflight' = [inflight EXCEPT ![p] = Idle]
        /\ UNCHANGED <<users, nextId, last, nreq, todos, nextTodoId, now,
                       tlast, tflight, issued>>

\* The create or update call of the handler's reconciliation, and the
\* response.
handlerWrite(p) ==
    LET r == inflight[p]
        user == pendingRow(r)
        row == CHOOSE u \in users : u.id = r.found.id
    IN  /\ r.pc \in {"handlerCreate", "handlerUpdate"}
        /\ IF r.pc = "handlerUpdate"
           THEN /\ users' = applyUpdate(users, r.found.id, r.op, OrNull(r.picture))
                /\ handlerDone(r.op, r.email,
                               federatedResult(updateUser(row, r.op,
                                                          OrNull(r.picture))))
                /\ UNCHANGED nextId
           ELSE IF EmailIsFree(users, r.email)
           THEN /\ users' = users \cup {user}
                /\ nextId' = nextId + 1
                /\ handlerDone(r.op, r.email, federatedResult(user))
           ELSE /\ handlerFailed(r.op, r.email, 2)
                /\ UNCHANGED <<users, nextId>>
        /\ inflight' = [inflight EXCEPT ![p] = Idle]
        /\ UNCHANGED <<last, nreq, todos, nextTodoId, now, tlast, tflight,
                       issued>>

GoogleCallback ==
    /\ nreq < MaxCallbacks
    /\ \E p \in Procs, emails \in GoogleEmailLists, givenName \in GivenNames,
          familyName \in FamilyNames, picture \in GooglePictures,
          down \in BOOLEAN :
           googleValidate(p, emails, givenName, familyName, picture, down)

AmazonCallback ==
    /\ nreq < MaxCallbacks
    /\ \E p \in Procs, email \in AmazonProfileEmails, name \in AmazonNames,
          down \in BOOLEAN :
           amazonValidate(p, email, name, down)

StrategyWrite == \E p \in Procs : strategyWrite(p)

Handler == \E p \in Procs, down \in BOOLEAN : handler(p, down)

HandlerWrite == \E p \in Procs : handlerWrite(p)

\* A local registration between callbacks.
CallbackRegister ==
    /\ nreq < MaxCallbacks
    /\ UNCHANGED restVars
    /\ \E p \in Procs, email \in Emails, name \in RegisterNames,
          password \in Passwords :
           register(p, email, name, password)

NextCallback ==
    \/ GoogleCallback
    \/ AmazonCallback
    \/ StrategyWrite
    \/ Handler
    \/ HandlerWrite
    \/ CallbackRegister
    \/ Create

SpecCallback == Init /\ [][NextCallback]_vars

(***************************************************************************)
(* Sessions: the authentication endpoints issue tokens, and the todo       *)
(* endpoints are called with tokens that were issued.                      *)
(***************************************************************************)
\* signOptions.expiresIn, in ticks of the model's clock.
TokenLifetime == MaxTime

\* jwtService.sign(payload) at time t: the claims token validation reads.
sign(payload, t) ==
    [sub |-> payload.sub, exp |-> t + TokenLifetime, signed |-> TRUE]

\* The token in the response of the authentication request that completes
\* in this step, if one does with a result.
issue ==
    issued' = IF /\ \A p \in Procs : inflight'[p] \in {inflight[p], Idle}
                 /\ last'.status = "ok"
              THEN issued \cup {sign(last'.body.token, now)}
              ELSE issued

SessionRegister ==
    /\ nreq < MaxSessionRequests
    /\ \E p \in Procs, email \in Emails :
           register(p, email, <<"A", "n">>, "pw123456")
    /\ issue
    /\ UNCHANGED <<todos, nextTodoId, now, tlast, tflight, cblast>>

SessionLogin ==
    /\ nreq < MaxSessionRequests
    /\ \E p \in Procs, email \in Emails, password \in Passwords :
           login(p, email, password)
    /\ issue
    /\ UNCHANGED <<todos, nextTodoId, now, tlast, tflight, cblast>>

SessionGoogle ==
    /\ nreq < MaxSessionRequests
    /\ \E p \in Procs, email \in Emails :
           validateOrCreateGoogleUser(p, email, <<"G">>, <<"H">>, <<"p">>)
    /\ issue
    /\ UNCHANGED <<todos, nextTodoId, now, tlast, tflight, cblast>>

SessionAmazon ==
    /\ nreq < MaxSessionRequests
    /\ \E p \in Procs, email \in Emails :
           validateOrCreateAmazonUser(p, email, <<"Z">>, Undefined)
    /\ issue
    /\ UNCHANGED <<todos, nextTodoId, now, tlast, tflight, cblast>>

SessionCompare ==
    /\ \E p \in Procs : finishLogin(p)
    /\ issue
    /\ UNCHANGED <<todos, nextTodoId, now, tlast, tflight, cblast>>

SessionUserCreate ==
    /\ \E p \in Procs : finishCreate(p)
    /\ issue
    /\ UNCHANGED <<todos, nextTodoId, now, tlast, tflight, cblast>>

SessionUserUpdate ==
    /\ \E p \in Procs : finishUpdate(p)
    /\ issue
    /\ UNCHANGED <<todos, nextTodoId, now, tlast, tflight, cblast>>

SessionCreate ==
    /\ nreq < MaxSessionRequests
    /\ RoomToCreate
    /\ \E p \in Procs, token \in issued :
           canActivate(p, "create", token, 0, [title |-> <<"a">>])

SessionFindAll ==
    /\ nreq < MaxSessionRequests
    /\ \E p \in Procs, token \in issued :
           canActivate(p, "findAll", token, 0, << >>)

SessionFindOne ==
    /\ nreq < MaxSessionRequests
    /\ \E p \in Procs, token \in issued, id \in TodoIds :
           canActivate(p, "findOne", token, id, << >>)

SessionUpdate ==
    /\ nreq < MaxSessionRequests
    /\ \E p \in Procs, token \in issued, id \in TodoIds :
           canActivate(p, "update", token, id,
                       [title |-> <<"c">>, completed |-> TRUE])

SessionRemove ==
    /\ nreq < MaxSessionRequests
    /\ \E p \in Procs, token \in issued, id \in TodoIds :
           canActivate(p, "remove", token, id, << >>)

NextSession ==
    \/ SessionRegister
    \/ SessionLogin
    \/ SessionGoogle
    \/ SessionAmazon
    \/ SessionCompare
    \/ SessionUserCreate
    \/ SessionUserUpdate
    \/ SessionCreate
    \/ SessionFindAll
    \/ SessionFindOne
    \/ SessionUpdate
    \/ SessionRemove
    \/ RunCreate
    \/ RunFindAll
    \/ RunFindOne
    \/ RunUpdate
    \/ RunRemove
    \/ WriteUpdate
    \/ WriteRemove
    \/ Tick

SpecSession == Init /\ [][NextSession]_vars

(***************************************************************************)
(* Properties.  A step takes a request from one await to the next: from   *)
(* its arrival to the await after its first store call, or from a pending  *)
(* await to the next one or to its end.  `users` and `todos` are the       *)
(* tables before the step; `last'` / `tlast'` hold the inputs and outcome  *)
(* of a request that ends in it.                                           *)
(***************************************************************************)
TypeOK ==
    /\ nextId = Cardinality(users) + 1
    /\ nreq \in 0..MaxRequests

Federated == {"google", "amazon"}

\* The step ends a request of the authentication endpoints.
Completes ==
    /\ nreq' # nreq \/ inflight' # inflight
    /\ \A p \in Procs : inflight'[p] \in {inflight[p], Idle}

\* A step that ends a request of kind op.
Handles(op) == Completes /\ last'.op = op

\* A step in which a request of kind op for the given e-mail arrives: it ends
\* in the step, or it is pending afterwards.
Arrives(op, email) ==
    /\ nreq' = nreq + 1
    /\ IF Completes
       THEN last'.op = op /\ last'.email = email
       ELSE \E p \in Procs :
              /\ inflight'[p] # inflight[p]
              /\ inflight'[p].op = op
              /\ inflight'[p].email = email

\* The request that arrives in the step awaits a write of kind pc.
Awaits(pc) ==
    \E p \in Procs : inflight'[p] # inflight[p] /\ inflight'[p].pc = pc

\* The step is the pending write, of kind pc, of the request in slot p.
Writes(p, pc) == inflight[p].pc = pc /\ inflight'[p] = Idle

\* The response body and token claims built from a stored row u by the
\* handler of a request of kind op.
BodyOf(op, u) ==
    [id |-> u.id, email |-> u.email,
     name |-> IF op \in Federated THEN OrNull(u.name) ELSE u.name,
     token |-> [sub |-> u.id, email |-> u.email, name |-> OrNull(u.name),
                picture |-> OrNull(u.profilePicture)],
     picture |-> IF op \in Federated THEN OrNull(u.profilePicture)
                 ELSE u.profilePicture]

\* C1: a login ends in Unauthorized whenever the user row it read has an
\* authProvider other than 'local' (google or amazon), even when the supplied
\* password matches the stored hash.
C1_LoginRejectsNonLocal ==
    [][(/\ Handles("login")
        /\ last'.found # NoUser
        /\ last'.found.authProvider # "local")
          => last'.status = "Unauthorized"]_vars

\* C2: a login with the correct password that arrives for a user whose stored
\* authProvider is 'google' ends, without reaching the password comparison,
\* in the provider-specific Unauthorized message, never in the generic
\* 'Invalid credentials' message.
C2_GoogleLoginMessage ==
    [][\A u \in users :
         (/\ Arrives("login", u.email)
          /\ u.authProvider = "google"
          /\ Completes => bcryptCompare(last'.password, u.password))
            => /\ Completes
               /\ last'.status = "Unauthorized"
               /\ last'.message = GoogleAccountMessage
               /\ last'.message # "Invalid credentials"]_vars

\* A local login with the original password was rejected for an account that
\* registered locally and later signed in with Google.
C2_Witness ==
    /\ last.op = "login"
    /\ last.found.authProvider = "google"
    /\ last.found.password = bcryptHash(last.password)
    /\ last.status = "Unauthorized"

\* C3: a register request that arrives when a stored user has its e-mail
\* (whatever the provider) ends in Conflict whatever name and password are
\* supplied, and leaves the set of user rows and all their fields unchanged.
C3_RegisterConflict ==
    [][\A u \in users :
         Arrives("register", u.email)
            => /\ Completes
               /\ last'.status = "Conflict"
               /\ users' = users
               /\ nextId' = nextId]_vars

\* A registration hit the e-mail of a federated account, with a name other
\* than the stored one.
C3_Witness ==
    /\ last.op = "register"
    /\ last.status = "Conflict"
    /\ last.found.authProvider = "google"
    /\ last.name # last.found.name

\* A login arriving in the step supplies the given password.
Supplies(password) ==
    IF Completes
    THEN last'.password = password
    ELSE \E p \in Procs :
           inflight'[p] # inflight[p] /\ inflight'[p].password = password

\* A successful registration stores a row whose password the registered
\* plaintext verifies, and no step changes the stored password of a row.
RegisteredPasswordKept ==
    /\ \A p \in Procs :
         (/\ Writes(p, "create")
          /\ inflight[p].op = "register"
          /\ last'.status = "ok")
            => /\ Cardinality(users' \ users) = 1
               /\ \A n \in users' \ users :
                    /\ n.email = inflight[p].email
                    /\ n.id = last'.body.id
                    /\ bcryptCompare(inflight[p].password, n.password)
    /\ \A u \in users :
         \E v \in users' :
            v.id = u.id /\ v.email = u.email /\ v.password = u.password

\* The comparison step of a login lets the password that verifies the stored
\* hash in, with a token whose sub is the id of the row registered under the
\* e-mail.
ComparedLoginSucceeds(providers) ==
    \A p \in Procs :
       (/\ Writes(p, "compare")
        /\ inflight[p].found.authProvider \in providers
        /\ bcryptCompare(inflight[p].password, inflight[p].found.password))
          => /\ last'.status = "ok"
             /\ last'.body.token.sub = inflight[p].found.id
             /\ last'.body.id = inflight[p].found.id
             /\ \E u \in users :
                  u.id = inflight[p].found.id /\ u.email = inflight[p].email

\* C4 as stated: after a successful register(email, name, password), every
\* later login(email, password) succeeds and returns a token whose sub is the
\* id of the user that registration created.  A registered row is one with a
\* stored password; the login is followed from its lookup to its comparison.
C4_LoginAfterRegister ==
    [][/\ RegisteredPasswordKept
       /\ \A u \in users, password \in Passwords :
            (/\ Arrives("login", u.email)
             /\ Supplies(password)
             /\ bcryptCompare(password, u.password))
               => ~Completes /\ Awaits("compare")
       /\ ComparedLoginSucceeds({"local", "google", "amazon"})]_vars

\* C4, amended: after a successful register(email, name, password), a later
\* login(email, password) that finds the account with authProvider "local"
\* succeeds and returns a token whose sub is the id of the user that
\* registration created.
C4_LoginWhileLocal ==
    [][/\ RegisteredPasswordKept
       /\ \A u \in users, password \in Passwords :
            (/\ Arrives("login", u.email)
             /\ u.authProvider = "local"
             /\ Supplies(password)
             /\ bcryptCompare(password, u.password))
               => ~Completes /\ Awaits("compare")
       /\ ComparedLoginSucceeds({"local"})]_vars

\* A login succeeded for a local account with a token for that account.
C4_Witness ==
    /\ last.op = "login"
    /\ last.status = "ok"
    /\ last.found.authProvider = "local"
    /\ last.body.token.sub = last.found.id
    /\ Cardinality(users) = 2

\* C5: a federated login that arrives for an e-mail no stored user has goes
\* on to a create; the create, when no stored user has the e-mail, inserts
\* exactly one row, with authProvider the provider, password "", name and
\* profilePicture (or null) from the profile, and changes no other row.
C5_FederatedCreates ==
    [][/\ \A op \in Federated, email \in Emails :
            (Arrives(op, email) /\ \A u \in users : u.email # email)
               => Awaits("create")
       /\ \A p \in Procs :
            (/\ Writes(p, "create")
             /\ inflight[p].op \in Federated
             /\ \A u \in users : u.email # inflight[p].email)
               => /\ users \subseteq users'
                  /\ Cardinality(users' \ users) = 1
                  /\ last'.status = "ok"
                  /\ \A n \in users' \ users :
                        /\ n.email = inflight[p].email
                        /\ n.authProvider = inflight[p].op
                        /\ n.password = <<>>
                        /\ n.name = inflight[p].name
                        /\ n.profilePicture = OrNull(inflight[p].picture)
                        /\ \A u \in users : u.id # n.id]_vars

\* A Google login created a second row, with a picture from the profile.
C5_Witness ==
    /\ last.op = "google"
    /\ last.found = NoUser
    /\ last.status = "ok"
    /\ last.body.picture = last.picture
    /\ Cardinality(users) = 2

\* C6: a federated login via P that arrives for an e-mail whose user already
\* has authProvider = P ends without a write, even when the profile's name or
\* picture differ, and builds token and response from the stored fields.
C6_SameProviderNoWrite ==
    [][\A u \in users :
         Arrives(u.authProvider, u.email)
            => /\ Completes
               /\ users' = users
               /\ nextId' = nextId
               /\ last'.status = "ok"
               /\ last'.body = BodyOf(last'.op, u)]_vars

\* A repeated login via the same provider carried another name and another
\* picture than the stored ones.
C6_Witness ==
    /\ last.op \in Federated
    /\ last.status = "ok"
    /\ last.found.authProvider = last.op
    /\ OrNull(last.name) # OrNull(last.found.name)
    /\ OrNull(last.picture) # OrNull(last.found.profilePicture)

\* C7: a federated login via P that arrives for an e-mail whose user has
\* another authProvider goes on to an update; the update sets that user's
\* authProvider to P and profilePicture to the incoming picture (null when
\* absent), leaves its password, name, id and e-mail unchanged, and changes
\* no other row.
C7_ProviderSwitch ==
    [][/\ \A u \in users, op \in Federated :
            (Arrives(op, u.email) /\ u.authProvider # op) => Awaits("update")
       /\ \A p \in Procs, u \in users :
            (Writes(p, "update") /\ u.id = inflight[p].found.id)
               => /\ users' = (users \ {u}) \cup
                        {[id |-> u.id, email |-> u.email,
                          password |-> u.password, name |-> u.name,
                          authProvider |-> inflight[p].op,
                          profilePicture |-> OrNull(inflight[p].picture)]}
                  /\ nextId' = nextId]_vars

\* A local account with a password hash was switched to a provider by a
\* profile without picture, next to a second account.
C7_Witness ==
    /\ last.op \in Federated
    /\ last.status = "ok"
    /\ last.found # NoUser
    /\ last.found.authProvider # last.op
    /\ last.found.password # <<>>
    /\ Falsy(last.picture)
    /\ \E u \in users : u.id = last.found.id /\ u.authProvider = last.op
    /\ Cardinality(users) = 2

\* C8: for every successful register, login and federated login, the returned
\* id/email/name/picture and the token claims equal the fields of a user row
\* as the store returned it to the operation (the row its create inserted,
\* the row its update left, or the stored row its lookup read), not the
\* incoming profile values.
C8_ResponseFromPersisted ==
    [][/\ \A p \in Procs :
            /\ (Writes(p, "create") /\ last'.status = "ok")
                  => \E u \in users' \ users :
                        last'.body = BodyOf(last'.op, u)
            /\ Writes(p, "update")
                  => \E u \in users' :
                        /\ u.id = inflight[p].found.id
                        /\ last'.body = BodyOf(last'.op, u)
            /\ (Writes(p, "compare") /\ last'.status = "ok")
                  => last'.body = BodyOf("login", inflight[p].found)
            /\ (inflight'[p] # inflight[p] /\ inflight'[p].pc = "compare")
                  => inflight'[p].found \in users
       /\ (nreq' = nreq + 1 /\ Completes /\ last'.status = "ok")
            => \E u \in users :
                  u.email = last'.email /\ last'.body = BodyOf(last'.op, u)]_vars

\* A provider switch answered with the stored name although the profile
\* carried another one, and with the picture it had just written.
C8_Witness ==
    /\ last.op \in Federated
    /\ last.status = "ok"
    /\ last.found # NoUser
    /\ last.found.authProvider # last.op
    /\ OrNull(last.name) # last.body.name
    /\ last.body.picture # OrNull(last.found.profilePicture)

\* C9: under any sequence and interleaving of register, login, Google and
\* Amazon logins, no two stored users have the same e-mail.
C9_EmailUnique ==
    \A u, v \in users : u.email = v.email => u = v

\* Two requests for one unseen e-mail both passed their lookup, and the
\* second create was refused.
C9_Witness ==
    /\ last.status = "UniqueConstraint"
    /\ last.found = NoUser
    /\ \E u \in users : u.email = last.email

\* The authentication method a request of kind op stands for.
Method(op) == IF op \in Federated THEN op ELSE "local"

\* C10: each user's authProvider is one of 'local', 'google', 'amazon', and
\* after a successful authentication of that user it equals the method of
\* that most recent successful authentication.
C10_ProviderIsLastMethod ==
    /\ \A u \in users : u.authProvider \in {"local", "google", "amazon"}
    /\ last.status = "ok" =>
          \A u \in users : u.id = last.body.id => u.authProvider = Method(last.op)

\* C11: login never succeeds, for any supplied password, for a user whose
\* stored password is the empty-string sentinel, whatever its authProvider.
C11_SentinelNeverMatches ==
    [][\A u \in users :
         (Handles("login") /\ u.email = last'.email /\ u.password = <<>>)
            => last'.status = "Unauthorized"]_vars

\* A local login reached the password comparison for a federated-only
\* account (its provider is not 'google') and was rejected there.
C11_Witness ==
    /\ last.op = "login"
    /\ last.found.password = <<>>
    /\ last.found.authProvider = "amazon"
    /\ last.status = "Unauthorized"
    /\ last.message = "Invalid credentials"

\* The step ends a todo request.
TodoCompletes ==
    /\ nreq' # nreq \/ tflight' # tflight
    /\ \A p \in Procs : tflight'[p] \in {tflight[p], TodoIdle}

\* A step that ends a todo request of one of the kinds in ops for an
\* authenticated caller.
TodoHandles(ops) ==
    TodoCompletes /\ tlast'.op \in ops /\ tlast'.caller # 0

\* The todo request that arrives in the step: its inputs, the caller the
\* guard attached, and whether it is let through to its handler.
Arrived ==
    IF TodoCompletes
    THEN [op |-> tlast'.op, token |-> tlast'.token, id |-> tlast'.id,
          dto |-> tlast'.dto, caller |-> tlast'.caller, pending |-> FALSE]
    ELSE LET f == tflight'[CHOOSE p \in Procs : tflight'[p] # tflight[p]]
         IN  [op |-> f.op, token |-> f.token, id |-> f.id, dto |-> f.dto,
              caller |-> f.caller, pending |-> TRUE]

\* The step runs the handler of the request in slot p up to its next await.
Runs(p) == tflight[p].pc = "handler" /\ tflight'[p] # tflight[p]

ById == {"findOne", "update", "remove"}

\* The body of the request behind outcome o passes validation.
ValidBody(o) == o.op = "update" => validUpdateTodoDto(o.dto)

\* C12: findOne, update or remove by a caller on the id of a todo owned by
\* someone else ends in NotFound (for a well-formed request): no todo data is
\* returned, the status is not Forbidden, and the table is left as it was.
C12_CrossOwnerNotFound ==
    [][\A t \in todos :
         (TodoHandles(ById) /\ tlast'.id = t.id /\ tlast'.caller # t.userId)
            => /\ ValidBody(tlast') => tlast'.status = "NotFound"
               /\ tlast'.body = NoTodo
               /\ todos' = todos]_vars

C12_Witness ==
    /\ tlast.op = "update" /\ tlast.status = "NotFound" /\ ValidBody(tlast)
    /\ \E t \in todos : t.id = tlast.id /\ t.userId # tlast.caller

\* The caller's own rows.
OwnedBy(ts, userId) == {t \in ts : t.userId = userId}

\* C13: how the handler of a findOne, update or remove request answers its
\* lookup is decided by the caller's own rows alone: an id that exists under
\* another owner is answered exactly like an id that does not exist, with
\* the same NotFound message built from the id and nothing else; an id of an
\* own row is not answered NotFound.
C13_ForeignLikeMissing ==
    [][\A p \in Procs :
         (Runs(p) /\ tflight[p].op \in ById /\ ValidBody(tflight[p]))
            => LET f == tflight[p]
                   own == OwnedBy(todos, f.caller)
               IN  IF \E t \in own : t.id = f.id
                   THEN \/ tflight'[p].pc = f.op
                        \/ tflight'[p] = TodoIdle /\ tlast'.status = "ok"
                   ELSE /\ tflight'[p] = TodoIdle
                        /\ tlast'.op = f.op /\ tlast'.id = f.id
                        /\ tlast'.status = "NotFound"
                        /\ tlast'.message = notFoundMessage(f.id)
                        /\ tlast'.body = NoTodo
                        /\ todos' = todos]_vars

C13_Witness ==
    /\ tlast.op = "findOne" /\ tlast.status = "NotFound"
    /\ tlast.message = notFoundMessage(tlast.id)
    /\ \E t \in todos : t.id = tlast.id /\ t.userId # tlast.caller

\* C14: findAll for a caller returns exactly the todos whose userId is the
\* caller's id, each once, ordered by creation time descending.
C14_FindAllOwnDescending ==
    (tlast.op = "findAll" /\ tlast.status = "ok")
       => /\ {tlast.body[i] : i \in DOMAIN tlast.body}
                = OwnedBy(todos, tlast.caller)
          /\ Len(tlast.body) = Cardinality(OwnedBy(todos, tlast.caller))
          /\ \A i, j \in DOMAIN tlast.body :
                i < j => tlast.body[i].createdAt >= tlast.body[j].createdAt

C14_Witness ==
    /\ tlast.op = "findAll" /\ tlast.status = "ok"
    /\ Len(tlast.body) = 2
    /\ tlast.body[1].createdAt > tlast.body[2].createdAt
    /\ \E t \in todos : t.userId # tlast.caller

\* C15: a todo that appears in the table was inserted by a create request and
\* carries that request's caller id as userId; no step changes the userId of
\* a todo that stays in the table.
C15_OwnerFixedAtCreate ==
    [][/\ \A t \in todos' :
            (\A o \in todos : o.id # t.id)
               => TodoHandles({"create"}) /\ t.userId = tlast'.caller
       /\ \A o \in todos, t \in todos' :
            o.id = t.id => t.userId = o.userId]_vars

C15_Witness ==
    /\ tlast.op = "update" /\ tlast.status = "ok"
    /\ tlast.id > Cardinality(TodoRows)
    /\ \E t \in todos : t.id = tlast.id /\ t.userId = tlast.caller /\ t = tlast.body

\* C17: a todo request is let through only for a caller whose id is the
\* token's sub and names an existing user; a validly signed, unexpired token
\* whose sub has no user row is answered Unauthorized and no todo operation
\* runs.
C17_TokenNeedsUser ==
    [][nreq' = nreq + 1
         => /\ Arrived.caller # 0
                => /\ Arrived.caller = Arrived.token.sub
                   /\ \E u \in users : u.id = Arrived.caller
            /\ (/\ Arrived.token.signed /\ now < Arrived.token.exp
                /\ \A u \in users : u.id # Arrived.token.sub)
                => /\ ~Arrived.pending
                   /\ tlast'.status = "Unauthorized"
                   /\ tlast'.message = <<"Invalid token">>
                   /\ todos' = todos /\ nextTodoId' = nextTodoId]_vars

C17_Witness ==
    /\ tlast.op = "remove" /\ tlast.status = "Unauthorized"
    /\ tlast.message = <<"Invalid token">>
    /\ tlast.token.signed /\ now < tlast.token.exp
    /\ \A u \in users : u.id # tlast.token.sub
    /\ \E t \in todos : t.id = tlast.id

\* C18: a request that arrives with an expired token is rejected whether or
\* not the token's user exists, and no todo operation runs for it.
C18_ExpiredRejected ==
    [][(nreq' = nreq + 1 /\ now >= Arrived.token.exp)
         => /\ ~Arrived.pending
            /\ tlast'.status = "Unauthorized"
            /\ tlast'.caller = 0
            /\ todos' = todos /\ nextTodoId' = nextTodoId]_vars

C18_Witness ==
    /\ tlast.op = "create" /\ tlast.status = "Unauthorized"
    /\ tlast.token.signed /\ now >= tlast.token.exp
    /\ \E u \in users : u.id = tlast.token.sub

\* C16: under any interleaving of requests, a todo is changed or deleted only
\* by the write of a request whose caller id equals the todo's userId, though
\* the ownership check and the write by id are separate steps.
C16_OnlyOwnerMutates ==
    [][\A t \in todos :
         t \notin todos'
            => \E p \in Procs :
                 /\ tflight[p].pc \in {"update", "remove"}
                 /\ tflight'[p] = TodoIdle
                 /\ tflight[p].id = t.id
                 /\ tflight[p].caller = t.userId]_vars

C16_Witness ==
    /\ tlast.op = "update" /\ tlast.status = "ok"
    /\ \E p \in Procs : tflight[p].pc = "remove" /\ tflight[p].id = tlast.id
    /\ \E t \in todos : t.id # tlast.id /\ t.userId # tlast.caller

\* C19: every callback that fails (issues no token) ends in a 302 redirect to
\* the frontend login page with auth_error=true; no raw error response.
C19_FailureRedirects ==
    (cblast.provider # "none" /\ cblast.token = NoToken)
       => /\ cblast.status = 302
          /\ cblast.location = LoginRedirect(cblast.provider)

\* C20: a federated login whose profile yields no email fails without a
\* reconciliation call: no user row is created or modified and no token is
\* issued.
C20_NoEmailNoReconcile ==
    [][(cblast' # cblast /\ cblast'.email = "")
         => /\ cblast'.reconciled = 0
            /\ cblast'.token = NoToken
            /\ users' = users /\ nextId' = nextId]_vars

C20_Witness ==
    /\ cblast.provider = "amazon" /\ cblast.email = ""
    /\ cblast.reconciled = 0 /\ cblast.token = NoToken
    /\ users # {}

\* C21: in every reachable state every stored todo has a non-empty title,
\* after create and after any update the validation layer accepts.
C21_TitleNonEmpty == \A t \in todos : t.title # <<>>

\* The instant a due-date string denotes, and the stored value that denotes
\* the supplied dueDate (null for JSON null).
Instant(d) == d.wall - d.offset

SuppliedDueDate(dto) ==
    IF dto.dueDate = JsonNull THEN NoDate ELSE {Instant(dto.dueDate)}

\* C22: a successful update sets exactly the fields among title, description,
\* completed and dueDate that the DTO supplies to the supplied values, and
\* leaves every other field of the todo, its id and owner, and every other
\* todo unchanged.
C22_PartialMerge ==
    [][(TodoHandles({"update"}) /\ tlast'.status = "ok")
         => \E old \in todos, new \in todos' :
              LET dto == tlast'.dto
              IN  /\ old.id = tlast'.id /\ new.id = old.id
                  /\ new = tlast'.body
                  /\ todos' \ {new} = todos \ {old}
                  /\ new.userId = old.userId /\ new.createdAt = old.createdAt
                  /\ new.title =
                       IF Has(dto, "title") THEN dto.title ELSE old.title
                  /\ new.description =
                       IF Has(dto, "description") THEN dto.description
                       ELSE old.description
                  /\ new.completed =
                       IF Has(dto, "completed") THEN dto.completed
                       ELSE old.completed
                  /\ new.dueDate =
                       IF Has(dto, "dueDate") THEN SuppliedDueDate(dto)
                       ELSE old.dueDate]_vars

\* Date.prototype.toISOString: the date string a response carries for a
\* stored instant.
toISOString(instant) == [wall |-> instant, offset |-> 0]

\* The todos a fetch response carries.
Fetched(o) ==
    IF o.op = "findAll" THEN {o.body[i] : i \in DOMAIN o.body}
    ELSE IF o.status = "ok" THEN {o.body} ELSE {}

\* C23: a create followed by a findOne of the created id, or a findAll, by
\* the same user returns the todo with a dueDate that denotes the same
\* instant as the date string the create supplied, and a null dueDate when
\* none was supplied.
C23_DueDateRoundTrip ==
    [][(/\ tlast.op = "create" /\ tlast.status = "ok"
        /\ TodoHandles({"findOne", "findAll"})
        /\ tlast'.caller = tlast.caller
        /\ tlast'.op = "findOne" => tlast'.id = tlast.body.id)
         => \E t \in Fetched(tlast') :
              /\ t.id = tlast.body.id
              /\ IF Has(tlast.dto, "dueDate") /\ tlast.dto.dueDate # JsonNull
                 THEN {Instant(toISOString(i)) : i \in t.dueDate}
                         = {Instant(tlast.dto.dueDate)}
                 ELSE t.dueDate = NoDate]_vars

C23_Witness ==
    /\ tlast.op = "findOne" /\ tlast.status = "ok"
    /\ tlast.id > Cardinality(TodoRows)
    /\ tlast.body.dueDate = {Instant([wall |-> 7, offset |-> 1])}

\* C24: under any interleaving of update and remove requests of the owner on
\* the same todo, every such request completes with the updated or deleted
\* todo or with NotFound; none ends in another error because the todo was
\* deleted between its ownership check and its write.
C24_RaceEndsOkOrNotFound ==
    (tlast.op \in {"update", "remove"} /\ tlast.caller # 0 /\ ValidBody(tlast))
       => tlast.status \in {"ok", "NotFound"}

\* C25: when register and federated-login requests for one never-seen e-mail
\* have all completed their lookup before any of them creates, the first
\* create inserts the one row with that e-mail; every later create of such a
\* request fails, returns no token and leaves the table as it was.
C25_OneRowPerRace ==
    [][\A p \in Procs :
         (inflight[p].pc = "create" /\ inflight'[p].pc = "idle")
            => LET r == inflight[p]
               IN  /\ r.found = NoUser
                   /\ Cardinality({u \in users' : u.email = r.email}) = 1
                   /\ IF \E u \in users : u.email = r.email
                      THEN /\ users' = users /\ nextId' = nextId
                           /\ last'.status = "UniqueConstraint"
                           /\ last'.body.token = NoToken
                      ELSE /\ last'.status = "ok"
                           /\ \E u \in users' :
                                /\ users' = users \cup {u}
                                /\ u.email = r.email
                                /\ last'.body.token.sub = u.id]_vars

\* A registration and a Google login raced for one e-mail; the registration
\* created the row and the Google login's create was refused.
C25_Witness ==
    /\ last.op = "google" /\ last.status = "UniqueConstraint"
    /\ last.found = NoUser /\ last.body.token = NoToken
    /\ \E u \in users : u.email = last.email /\ u.authProvider = "local"
    /\ Cardinality({u \in users : u.email = last.email}) = 1

\* C26: the controller's second reconciliation of a callback request never
\* creates or updates a user, under any interleaving with other requests.
C26_SecondCallNeverWrites ==
    [][\A p \in Procs :
         (/\ inflight[p].pc \in {"handler", "handlerCreate", "handlerUpdate"}
          /\ inflight'[p] # inflight[p])
            => users' = users /\ nextId' = nextId]_vars

\* C27: every token issued by register, login or a federated login is
\* accepted by the guard and JwtStrategy.validate, for the user it was issued
\* to, in every later state before its expiry.
C27_IssuedTokenStaysValid ==
    \A token \in issued :
        now < token.exp =>
            /\ validate(users, token) # NoAuthUser
            /\ jwtAuthGuard(users, token, now).user.id = token.sub

\* A todo request authenticated by an issued token after its subject's row
\* was rewritten by a federated login.
C27_Witness ==
    /\ tlast.status = "ok"
    /\ tlast.token \in issued
    /\ tlast.caller = tlast.token.sub
    /\ last.op \in {"google", "amazon"}
    /\ last.found # NoUser
    /\ last.found.id = tlast.caller
    /\ last.found.authProvider # last.op

\* C28: no step of register, login, a federated login or a todo operation
\* deletes a user or changes a stored user's id or e-mail: every row of the
\* table before the step is in the table after it with the same id and e-mail.
C28_UsersOnlyGrow ==
    [][\A u \in users :
           /\ \E v \in users' : v.id = u.id
           /\ \A v \in users' : v.id = u.id => v.email = u.email]_vars

\* A federated login rewrote one of two stored rows.
C28_Witness ==
    /\ last.status = "ok"
    /\ last.op \in {"google", "amazon"}
    /\ last.found # NoUser
    /\ last.found \notin users
    /\ Cardinality(users) = 2

\* C29: a login step never changes the users or the todos table, and neither
\* does the step that ends any operation in an error (register -> Conflict,
\* login -> Unauthorized, findOne / update / remove -> NotFound, or any other
\* non-ok status), nor the step that suspends an operation at its write.
C29_FailuresWriteNothing ==
    [][/\ ((nreq' # nreq \/ inflight' # inflight) /\ tlast' = tlast
            /\ last'.op = "login")
            => (users' = users /\ todos' = todos)
       /\ ((nreq' # nreq \/ inflight' # inflight) /\ tlast' = tlast
            /\ last'.status # "ok")
            => (users' = users /\ todos' = todos)
       /\ ((nreq' # nreq \/ tflight' # tflight) /\ last' = last
            /\ tlast'.status # "ok")
            => (users' = users /\ todos' = todos)]_vars

\* A rejected login of a registered user while the user owns a todo.
C29_Witness ==
    /\ last.op = "login"
    /\ last.status = "Unauthorized"
    /\ last.found # NoUser
    /\ \E t \in todos : t.userId = last.found.id

\* The stored todo t has the value of every field the update DTO supplies.
Carries(t, dto) ==
    /\ Has(dto, "title") => t.title = dto.title
    /\ Has(dto, "description") => t.description = dto.description
    /\ Has(dto, "completed") => t.completed = dto.completed
    /\ dueDateGiven(dto) => t.dueDate = {Instant(dto.dueDate)}

\* The update in slot p reached its write while the other update of the same
\* todo, supplying disjoint fields, has completed.
SecondOfDisjoint(p) ==
    /\ tflight[p].pc = "update"
    /\ tlast.op = "update"
    /\ tlast.status = "ok"
    /\ tlast.id = tflight[p].id
    /\ DOMAIN tlast.dto \cap DOMAIN tflight[p].dto = {}

\* C30: when two updates by the owner of the same todo supply disjoint field
\* sets, the write of the second one to finish succeeds and leaves a stored
\* todo that carries the supplied values of both requests.
C30_DisjointUpdatesBothApply ==
    [][\A p \in Procs :
           (SecondOfDisjoint(p) /\ tflight'[p].pc = "idle")
               => /\ tlast'.status = "ok"
                  /\ \E t \in todos' :
                         /\ t.id = tflight[p].id
                         /\ Carries(t, tlast.dto)
                         /\ Carries(t, tflight[p].dto)]_vars

\* Both updates were admitted before either wrote (the second slot is only
\* taken while the first is busy), one has written and the other is about to.
C30_Witness ==
    /\ nreq = 2
    /\ SecondOfDisjoint(2)
    /\ tflight[1] = TodoIdle
    /\ Carries(rowById(todos, tlast.id), tlast.dto)

====
